---- MODULE Spec2Model ----
(***************************************************************************)
(* State-machine model of the CampusPay smart contracts:                   *)
(*   PaymentContract      (payment/contract.py)                            *)
(*   ExpenseSplitContract (expense/contract.py)                            *)
(*   FundraisingContract  (fundraise/contract.py)                          *)
(* Every ABI method is one atomic action (an AVM application call either   *)
(* commits as a whole or aborts as a whole).  A call whose assert fails,   *)
(* or whose inner payment the ledger refuses, changes no contract state;   *)
(* it is recorded in lastCall with ok = FALSE.  UInt64 arithmetic of the   *)
(* AVM aborts on overflow/underflow; all amounts of the model stay far     *)
(* below 2^64, an underflow is modelled by the explicit guards.            *)
(***************************************************************************)
EXTENDS Integers, Sequences, FiniteSets, TLC

\* ---------------------------------------------------------------- bounds
MaxAmt       == 2   \* largest payment / amount argument drawn
MaxTxns      == 4   \* cap on PaymentContract.total_transactions
MaxDeposited == 4   \* cap on the total ever deposited into PaymentContract
MaxGroups    == 2   \* cap on ExpenseSplitContract.next_group_id
MaxContrib   == 6   \* cap on the total ever contributed to ExpenseSplitContract
MaxCampaigns == 2   \* cap on FundraisingContract.next_campaign_id
MaxRaised    == 4   \* cap on FundraisingContract.total_raised
MaxTime      == 2   \* cap on Global.latest_timestamp
MaxEvents    == 2   \* cap on EventTicketingContract.next_event_id
MaxDepth     == 2   \* cap on the number of calls suspended at a transfer

Accounts   == {"a1", "a2"}
AppAddress == "app"             \* Global.current_application_address
CreatorAddress == "a1"          \* Global.creator_address (the deployer)
Receivers  == {AppAddress, "a1"} \* receiver field of a grouped payment
NoId       == -1
EmptyBox   == [k \in {} |-> 0]

\* argument values drawn by the calls
Founders       == {"a1"}               \* callers of create_group / create_campaign
TotalAmounts   == {0, 3, 4}            \* create_group total_amount
MemberCounts   == {1, 2, 51}        \* create_group num_members
PenaltyRates   == {500, 1001}          \* create_group penalty_rate
Goals          == {0, 2, 3}            \* create_campaign goal
MilestoneCounts == {0, 1, 2, 11}       \* create_campaign num_milestones
Deadlines      == 0..(MaxTime - 1)    \* deadline arguments
GroupIds       == 0..(MaxGroups - 1)
CampaignIds    == 0..(MaxCampaigns - 1)
Organizers     == {"a1"}               \* callers of create_event
Buyers         == {"a2"}               \* callers of buy_ticket
Prices         == {0, 1}               \* create_event price
TicketCaps     == {0, 1, 2, 100001}    \* create_event max_tickets
EventTimes     == {<<0, 1>>, <<1, 1>>} \* create_event (start_time, end_time)
EventIds       == 0..(MaxEvents - 1)
FirstAssetId   == 1                    \* id of the first asset the ledger creates

VARIABLES
  \* PaymentContract
  balances, campus_verified, campus_id,
  total_volume, total_transactions, active_users,
  payDeposited, payWithdrawn,          \* history: inbound / outbound totals
  \* ExpenseSplitContract
  groups, contributions, next_group_id, total_groups, total_split,
  expIn, expSettles,                   \* history: inbound total, payouts per group
  \* FundraisingContract
  campaigns, donations, next_campaign_id, total_campaigns, total_raised,
  fundDonated, fundRefunded, fundReleased, fundReleases, \* history per campaign
  \* EventTicketingContract
  events, tickets, next_event_id, total_tickets_sold,
  next_asset_id, assetHolder, assetFrozen, assetLog,  \* the ledger's assets
  tickIn, tickOut,                     \* history: inbound total, paid out per event
  \* environment
  now,                                 \* Global.latest_timestamp
  lastCall,                            \* the call just executed and its outcome
  app,                                 \* the application a behaviour exercises
  stack,                               \* calls suspended at their inner payment
  run                                  \* a handler body being stepped through

payVars  == <<balances, campus_verified, campus_id, total_volume,
              total_transactions, active_users, payDeposited, payWithdrawn>>
expVars  == <<groups, contributions, next_group_id, total_groups, total_split,
              expIn, expSettles>>
fundVars == <<campaigns, donations, next_campaign_id, total_campaigns,
              total_raised, fundDonated, fundRefunded, fundReleased, fundReleases>>
tickVars == <<events, tickets, next_event_id, total_tickets_sold,
              next_asset_id, assetHolder, assetFrozen, assetLog, tickIn, tickOut>>
auxVars  == <<app, stack, run>>
vars     == <<payVars, expVars, fundVars, tickVars, now, lastCall, auxVars>>

\* ---------------------------------------------------------------- helpers
\* BoxMap.get(key, default=d)
BoxGet(box, k, d) == IF k \in DOMAIN box THEN box[k] ELSE d
\* BoxMap.maybe(key)[1]
BoxExists(box, k) == k \in DOMAIN box
\* BoxMap[key] = v
BoxPut(box, k, v) == [x \in (DOMAIN box) \cup {k} |-> IF x = k THEN v ELSE box[x]]

RECURSIVE SumOver(_, _)
SumOver(f, S) == IF S = {} THEN 0
                 ELSE LET x == CHOOSE y \in S : TRUE
                      IN f[x] + SumOver(f, S \ {x})
SumBox(box) == SumOver(box, DOMAIN box)

\* itxn.Payment(...).submit(): the ledger refuses an inner payment that the
\* application account cannot cover, which aborts the whole call.
ItxnOk(custody, amount) == amount <= custody

Call(op, sender, id, ok, itxns, ret) ==
  [op |-> op, sender |-> sender, id |-> id,
   ok |-> ok, itxns |-> itxns, ret |-> ret]
\* a call that aborted: nothing of it is committed, only that a call was
\* attempted and failed is noted
Rejected == Call("rejected", AppAddress, NoId, FALSE, <<>>, 0)
Pay(receiver, amount) == [receiver |-> receiver, amount |-> amount]

\* ================================================================ Payment
PayCustody == payDeposited - payWithdrawn

\* deposit, lines 69-71 and 74: the credited box map and the prior balance
DepositBalances(bal, sender, amount) ==
  LET current_balance == BoxGet(bal, sender, 0)
  IN [balances |-> BoxPut(bal, sender, current_balance + amount),
      prior    |-> current_balance]

Deposit ==
  \E sender \in Accounts, receiver \in Receivers, amount \in 0..MaxAmt :
    /\ total_transactions < MaxTxns
    /\ payDeposited + amount <= MaxDeposited
    /\ IF receiver = AppAddress /\ amount > 0
       THEN LET r == DepositBalances(balances, sender, amount) IN
            /\ balances' = r.balances
            /\ active_users' = IF r.prior = 0 THEN active_users + 1 ELSE active_users
            /\ total_volume' = total_volume + amount
            /\ total_transactions' = total_transactions + 1
            /\ payDeposited' = payDeposited + amount
            /\ lastCall' = Call("deposit", sender, NoId, TRUE, <<>>, 0)
            /\ UNCHANGED <<campus_verified, campus_id, payWithdrawn>>
       ELSE /\ lastCall' = Rejected
            /\ UNCHANGED payVars
    /\ UNCHANGED <<expVars, fundVars, tickVars, auxVars, now>>

\* send_money, lines 109-111: debit the sender, then read and credit the
\* recipient from the already debited map
SendMoneyBalances_m(bal, sender, recipient, amount) ==
  LET sender_balance    == BoxGet(bal, sender, 0)
      recipient_balance == BoxGet(bal, recipient, 0)
      debited           == BoxPut(bal, sender, sender_balance - amount)
  IN [balances |-> BoxPut(debited, recipient, recipient_balance + amount),
      prior    |-> recipient_balance]
SendMoneyBalances(bal, sender, recipient, amount) ==
  LET sender_balance    == BoxGet(bal, sender, 0)
      debited           == BoxPut(bal, sender, sender_balance - amount)
      recipient_balance == BoxGet(debited, recipient, 0)
  IN [balances |-> BoxPut(debited, recipient, recipient_balance + amount),
      prior    |-> recipient_balance]

\* send_money, lines 117-118: the identifier returned
SendMoneyId_m(counter) == counter
SendMoneyId(counter) == counter + 1

SendMoney ==
  \E sender \in Accounts, recipient \in Accounts, amount \in 0..MaxAmt :
    /\ total_transactions < MaxTxns
    /\ IF BoxGet(balances, sender, 0) >= amount /\ amount > 0
       THEN LET r == SendMoneyBalances(balances, sender, recipient, amount) IN
            /\ balances' = r.balances
            /\ active_users' = IF r.prior = 0 THEN active_users + 1 ELSE active_users
            /\ total_transactions' = total_transactions + 1
            /\ lastCall' = Call("send_money", sender, NoId, TRUE, <<>>,
                                SendMoneyId(total_transactions))
            /\ UNCHANGED <<campus_verified, campus_id, total_volume,
                           payDeposited, payWithdrawn>>
       ELSE /\ lastCall' = Rejected
            /\ UNCHANGED payVars
    /\ UNCHANGED <<expVars, fundVars, tickVars, auxVars, now>>

\* withdraw, line 136: the debited box map
WithdrawBalances_m(bal, sender, amount) == bal
WithdrawBalances(bal, sender, amount) ==
  BoxPut(bal, sender, BoxGet(bal, sender, 0) - amount)

Withdraw ==
  \E sender \in Accounts, amount \in 0..MaxAmt :
    /\ IF /\ BoxGet(balances, sender, 0) >= amount
          /\ amount > 0
          /\ ItxnOk(PayCustody, amount)
       THEN /\ balances' = WithdrawBalances(balances, sender, amount)
            /\ payWithdrawn' = payWithdrawn + amount
            /\ lastCall' = Call("withdraw", sender, NoId, TRUE,
                                <<Pay(sender, amount)>>, 0)
            /\ UNCHANGED <<campus_verified, campus_id, total_volume,
                           total_transactions, active_users, payDeposited>>
       ELSE /\ lastCall' = Rejected
            /\ UNCHANGED payVars
    /\ UNCHANGED <<expVars, fundVars, tickVars, auxVars, now>>

\* verify_campus, line 164
VerifyCampusOk_m(sender) == sender \in Accounts
VerifyCampusOk(sender) == sender = CreatorAddress

VerifyCampus ==
  \E sender \in Accounts, user \in Accounts, campus \in {"IIT-BOMBAY"} :
    /\ IF VerifyCampusOk(sender)
       THEN /\ campus_id' = BoxPut(campus_id, user, campus)
            /\ campus_verified' = BoxPut(campus_verified, user, TRUE)
            /\ lastCall' = Call("verify_campus", sender, NoId, TRUE, <<>>, 1)
            /\ UNCHANGED <<balances, total_volume, total_transactions,
                           active_users, payDeposited, payWithdrawn>>
       ELSE /\ lastCall' = Rejected
            /\ UNCHANGED payVars
    /\ UNCHANGED <<expVars, fundVars, tickVars, auxVars, now>>

\* get_balance / is_verified (read-only)
get_balance(user) == BoxGet(balances, user, 0)
is_verified(user) == BoxGet(campus_verified, user, FALSE)


\* ================================================================ Expense
ExpCustody == expIn - total_split

ExpenseGroup(creator, total_amount, num_members, deadline, penalty_rate) ==
  [creator |-> creator, total_amount |-> total_amount,
   num_members |-> num_members, total_contributed |-> 0, settled |-> FALSE,
   deadline |-> deadline, penalty_rate |-> penalty_rate]

\* create_group, lines 93-97
CreateGroupOk(total_amount, num_members, deadline, penalty_rate) ==
  /\ num_members >= 2
  /\ num_members <= 50
  /\ total_amount > 0
  /\ deadline > now
  /\ penalty_rate <= 1000

CreateGroup ==
  \E sender \in Founders, total_amount \in TotalAmounts,
     num_members \in MemberCounts, deadline \in Deadlines,
     penalty_rate \in PenaltyRates :
    /\ next_group_id < MaxGroups
    /\ IF CreateGroupOk(total_amount, num_members, deadline, penalty_rate)
       THEN /\ groups' = BoxPut(groups, next_group_id,
                           ExpenseGroup(sender, total_amount, num_members,
                                        deadline, penalty_rate))
            /\ next_group_id' = next_group_id + 1
            /\ total_groups' = total_groups + 1
            /\ lastCall' = Call("create_group", sender, next_group_id, TRUE, <<>>, next_group_id)
            /\ UNCHANGED <<contributions, total_split, expIn, expSettles>>
       ELSE /\ lastCall' = Rejected
            /\ UNCHANGED expVars
    /\ UNCHANGED <<payVars, fundVars, tickVars, auxVars, now>>

\* contribute, line 139
ExpectedShare(group) == group.total_amount \div group.num_members

\* contribute, lines 132-140
ContributeOk_m(group_id, receiver, amount) ==
  /\ BoxExists(groups, group_id)
  /\ receiver = AppAddress
  /\ amount >= ExpectedShare(groups[group_id])
ContributeOk(group_id, receiver, amount) ==
  /\ BoxExists(groups, group_id)
  /\ ~groups[group_id].settled
  /\ receiver = AppAddress
  /\ amount >= ExpectedShare(groups[group_id])

\* contribute, lines 152-154: the group record written back
ContributeGroup_m(group, amount) ==
  [group EXCEPT !.total_contributed = @ + ExpectedShare(group)]
ContributeGroup(group, amount) ==
  [group EXCEPT !.total_contributed = @ + amount]

Contribute ==
  \E sender \in Accounts, group_id \in 0..MaxGroups,
     receiver \in Receivers, amount \in 0..MaxAmt :
    /\ expIn + amount <= MaxContrib
    /\ IF ContributeOk(group_id, receiver, amount)
       THEN LET group   == groups[group_id]
                key     == <<group_id, sender>>
                current == BoxGet(contributions, key, 0)
            IN
            /\ contributions' = BoxPut(contributions, key, current + amount)
            /\ groups' = BoxPut(groups, group_id, ContributeGroup(group, amount))
            /\ expIn' = expIn + amount
            /\ lastCall' = Call("contribute", sender, group_id, TRUE,
                                <<>>, 0)
            /\ UNCHANGED <<next_group_id, total_groups, total_split, expSettles>>
       ELSE /\ lastCall' = Rejected
            /\ UNCHANGED expVars
    /\ UNCHANGED <<payVars, fundVars, tickVars, auxVars, now>>

\* settle_group, lines 167-172
SettleOk_anyone(group_id, sender) ==
  /\ BoxExists(groups, group_id)
  /\ groups[group_id].total_contributed >= groups[group_id].total_amount
  /\ ~groups[group_id].settled
SettleOk_strict(group_id, sender) ==
  /\ BoxExists(groups, group_id)
  /\ sender = groups[group_id].creator
  /\ groups[group_id].total_contributed > groups[group_id].total_amount
  /\ ~groups[group_id].settled
SettleOk(group_id, sender) ==
  /\ BoxExists(groups, group_id)
  /\ sender = groups[group_id].creator
  /\ groups[group_id].total_contributed >= groups[group_id].total_amount
  /\ ~groups[group_id].settled

\* settle_group, lines 175-176
SettleGroupRecord_m(group) == group
SettleGroupRecord(group) == [group EXCEPT !.settled = TRUE]

SettleGroup ==
  \E sender \in Accounts, group_id \in 0..MaxGroups :
    /\ IF /\ SettleOk(group_id, sender)
          /\ ItxnOk(ExpCustody, groups[group_id].total_amount)
       THEN LET group == SettleGroupRecord(groups[group_id]) IN
            /\ groups' = BoxPut(groups, group_id, group)
            /\ total_split' = total_split + group.total_amount
            /\ expSettles' = [expSettles EXCEPT ![group_id] = @ + 1]
            /\ lastCall' = Call("settle_group", sender, group_id, TRUE,
                                <<Pay(group.creator, group.total_amount)>>, 0)
            /\ UNCHANGED <<contributions, next_group_id, total_groups, expIn>>
       ELSE /\ lastCall' = Rejected
            /\ UNCHANGED expVars
    /\ UNCHANGED <<payVars, fundVars, tickVars, auxVars, now>>

\* Global.latest_timestamp advances between calls
Tick ==
  /\ now < MaxTime
  /\ now' = now + 1
  /\ lastCall' = Call("tick", AppAddress, NoId, TRUE, <<>>, 0)
  /\ UNCHANGED <<payVars, expVars, fundVars, tickVars, auxVars>>

\* get_contribution (read-only)
get_contribution(group_id, member) == BoxGet(contributions, <<group_id, member>>, 0)

\* ================================================================ Fundraise
SumDonated(c)  == SumOver(fundDonated[c], Accounts)
SumRefunded(c) == SumOver(fundRefunded[c], Accounts)
\* value paid out for campaign c: milestone payments plus refunds
PaidOut(c)     == fundReleased[c] + SumRefunded(c)
RECURSIVE SumPaidOut(_)
SumPaidOut(S) == IF S = {} THEN 0
                 ELSE LET c == CHOOSE x \in S : TRUE
                      IN PaidOut(c) + SumPaidOut(S \ {c})
\* balance of the application account: every donation, less every payout
FundCustody == total_raised - SumPaidOut(CampaignIds)

Campaign(creator, goal, num_milestones, deadline) ==
  [creator |-> creator, goal |-> goal, raised |-> 0,
   num_milestones |-> num_milestones, milestones_released |-> 0,
   deadline |-> deadline, active |-> TRUE, fully_funded |-> FALSE]

\* create_campaign, lines 95-98
CreateCampaignOk(goal, num_milestones, deadline) ==
  /\ goal > 0
  /\ num_milestones >= 1
  /\ num_milestones <= 10
  /\ deadline > now

CreateCampaign ==
  \E sender \in Founders, goal \in Goals,
     num_milestones \in MilestoneCounts, deadline \in Deadlines :
    /\ next_campaign_id < MaxCampaigns
    /\ IF CreateCampaignOk(goal, num_milestones, deadline)
       THEN /\ campaigns' = BoxPut(campaigns, next_campaign_id,
                              Campaign(sender, goal, num_milestones, deadline))
            /\ next_campaign_id' = next_campaign_id + 1
            /\ total_campaigns' = total_campaigns + 1
            /\ lastCall' = Call("create_campaign", sender, next_campaign_id, TRUE, <<>>, next_campaign_id)
            /\ UNCHANGED <<donations, total_raised, fundDonated, fundRefunded,
                           fundReleased, fundReleases>>
       ELSE /\ lastCall' = Rejected
            /\ UNCHANGED fundVars
    /\ UNCHANGED <<payVars, expVars, tickVars, auxVars, now>>

\* donate, lines 134-139
DonateOk_m(campaign_id, receiver, amount) ==
  /\ BoxExists(campaigns, campaign_id)
  /\ receiver = AppAddress
  /\ amount > 0
DonateOk(campaign_id, receiver, amount) ==
  /\ BoxExists(campaigns, campaign_id)
  /\ campaigns[campaign_id].active
  /\ receiver = AppAddress
  /\ amount > 0

\* donate, lines 150-157: the campaign record written back
DonateCampaign_gt(campaign, amount) ==
  LET new_raised == campaign.raised + amount
  IN [campaign EXCEPT !.raised = new_raised,
                      !.fully_funded = IF new_raised > campaign.goal
                                       THEN TRUE ELSE @]
DonateCampaign_m(campaign, amount) ==
  LET new_raised == campaign.raised + amount
  IN [campaign EXCEPT !.raised = new_raised,
                      !.fully_funded = (new_raised = campaign.goal)]
DonateCampaign(campaign, amount) ==
  LET new_raised == campaign.raised + amount
  IN [campaign EXCEPT !.raised = new_raised,
                      !.fully_funded = IF new_raised >= campaign.goal
                                       THEN TRUE ELSE @]

Donate ==
  \E sender \in Accounts, campaign_id \in 0..MaxCampaigns,
     receiver \in Receivers, amount \in 0..MaxAmt :
    /\ total_raised + amount <= MaxRaised
    /\ IF DonateOk(campaign_id, receiver, amount)
       THEN LET donor_key        == <<campaign_id, sender>>
                current_donation == BoxGet(donations, donor_key, 0)
            IN
            /\ donations' = BoxPut(donations, donor_key, current_donation + amount)
            /\ campaigns' = BoxPut(campaigns, campaign_id,
                              DonateCampaign(campaigns[campaign_id], amount))
            /\ total_raised' = total_raised + amount
            /\ fundDonated' = [fundDonated EXCEPT ![campaign_id][sender] = @ + amount]
            /\ lastCall' = Call("donate", sender, campaign_id, TRUE,
                                <<>>, 0)
            /\ UNCHANGED <<next_campaign_id, total_campaigns, fundRefunded,
                           fundReleased, fundReleases>>
       ELSE /\ lastCall' = Rejected
            /\ UNCHANGED fundVars
    /\ UNCHANGED <<payVars, expVars, tickVars, auxVars, now>>

\* release_milestone, lines 171-176
ReleaseOk_m(campaign_id, sender) ==
  /\ BoxExists(campaigns, campaign_id)
  /\ sender = campaigns[campaign_id].creator
  /\ campaigns[campaign_id].fully_funded
ReleaseOk(campaign_id, sender) ==
  /\ BoxExists(campaigns, campaign_id)
  /\ sender = campaigns[campaign_id].creator
  /\ campaigns[campaign_id].fully_funded
  /\ campaigns[campaign_id].milestones_released
       < campaigns[campaign_id].num_milestones

\* release_milestone, line 179
MilestoneAmount(campaign) == campaign.goal \div campaign.num_milestones

\* release_milestone, lines 189-197: the campaign record written back
ReleaseCampaign_m(campaign) ==
  [campaign EXCEPT !.milestones_released = campaign.milestones_released + 1]
ReleaseCampaign(campaign) ==
  LET released == campaign.milestones_released + 1
  IN [campaign EXCEPT !.milestones_released = released,
                      !.active = IF released = campaign.num_milestones
                                 THEN FALSE ELSE @]

ReleaseMilestone ==
  \E sender \in Accounts, campaign_id \in 0..MaxCampaigns :
    /\ IF /\ ReleaseOk(campaign_id, sender)
          /\ ItxnOk(FundCustody, MilestoneAmount(campaigns[campaign_id]))
       THEN LET campaign         == campaigns[campaign_id]
                milestone_amount == MilestoneAmount(campaign)
            IN
            /\ campaigns' = BoxPut(campaigns, campaign_id, ReleaseCampaign(campaign))
            /\ fundReleased' = [fundReleased EXCEPT ![campaign_id] = @ + milestone_amount]
            /\ fundReleases' = [fundReleases EXCEPT ![campaign_id] = @ + 1]
            /\ lastCall' = Call("release_milestone", sender, campaign_id, TRUE,
                                <<Pay(campaign.creator, milestone_amount)>>, 0)
            /\ UNCHANGED <<donations, next_campaign_id, total_campaigns,
                           total_raised, fundDonated, fundRefunded>>
       ELSE /\ lastCall' = Rejected
            /\ UNCHANGED fundVars
    /\ UNCHANGED <<payVars, expVars, tickVars, auxVars, now>>

\* claim_refund, lines 210-222
RefundOk_m(campaign_id, sender) ==
  /\ BoxExists(campaigns, campaign_id)
  /\ now >= campaigns[campaign_id].deadline
  /\ ~campaigns[campaign_id].fully_funded
  /\ BoxExists(donations, <<campaign_id, sender>>)
  /\ donations[<<campaign_id, sender>>] > 0
RefundOk(campaign_id, sender) ==
  /\ BoxExists(campaigns, campaign_id)
  /\ now > campaigns[campaign_id].deadline
  /\ ~campaigns[campaign_id].fully_funded
  /\ BoxExists(donations, <<campaign_id, sender>>)
  /\ donations[<<campaign_id, sender>>] > 0

\* claim_refund, line 225: the donation map after the claim
RefundDonations_m(don, donor_key) == don
RefundDonations(don, donor_key) == BoxPut(don, donor_key, 0)

ClaimRefund ==
  \E sender \in Accounts, campaign_id \in 0..MaxCampaigns :
    /\ IF /\ RefundOk(campaign_id, sender)
          /\ ItxnOk(FundCustody, donations[<<campaign_id, sender>>])
       THEN LET donor_key     == <<campaign_id, sender>>
                refund_amount == donations[donor_key]
            IN
            /\ donations' = RefundDonations(donations, donor_key)
            /\ fundRefunded' = [fundRefunded EXCEPT ![campaign_id][sender] = @ + refund_amount]
            /\ lastCall' = Call("claim_refund", sender, campaign_id, TRUE,
                                <<Pay(sender, refund_amount)>>, 0)
            /\ UNCHANGED <<campaigns, next_campaign_id, total_campaigns,
                           total_raised, fundDonated, fundReleased, fundReleases>>
       ELSE /\ lastCall' = Rejected
            /\ UNCHANGED fundVars
    /\ UNCHANGED <<payVars, expVars, tickVars, auxVars, now>>

\* get_donation (read-only)
get_donation(campaign_id, donor) == BoxGet(donations, <<campaign_id, donor>>, 0)

\* ================================================================ Ticketing
\* The ledger's asset primitives are taken as the contract uses them: an
\* AssetConfig creates a fresh asset held by the application, an AssetTransfer
\* moves its single unit to the receiver, an AssetFreeze freezes the
\* receiver's holding.
TickCustody == tickIn - SumOver(tickOut, EventIds)

Event(organizer, price, max_tickets, transferable, start_time, end_time) ==
  [organizer |-> organizer, price |-> price, max_tickets |-> max_tickets,
   sold |-> 0, transferable |-> transferable,
   start_time |-> start_time, end_time |-> end_time]

\* create_event, lines 104-106
CreateEventOk(max_tickets, start_time, end_time) ==
  /\ max_tickets > 0
  /\ max_tickets <= 100000
  /\ end_time > start_time

CreateEvent ==
  \E sender \in Organizers, price \in Prices, max_tickets \in TicketCaps,
     transferable \in BOOLEAN, times \in EventTimes :
    /\ next_event_id < MaxEvents
    /\ IF CreateEventOk(max_tickets, times[1], times[2])
       THEN /\ events' = BoxPut(events, next_event_id,
                           Event(sender, price, max_tickets, transferable,
                                 times[1], times[2]))
            /\ next_event_id' = next_event_id + 1
            /\ lastCall' = Call("create_event", sender, next_event_id, TRUE,
                                <<>>, next_event_id)
            /\ UNCHANGED <<tickets, total_tickets_sold, next_asset_id,
                           assetHolder, assetFrozen, assetLog, tickIn, tickOut>>
       ELSE /\ lastCall' = Rejected
            /\ UNCHANGED tickVars
    /\ UNCHANGED <<payVars, expVars, fundVars, auxVars, now>>

\* buy_ticket, lines 147-152
BuyTicketOk_m(event_id, receiver, amount) ==
  /\ BoxExists(events, event_id)
  /\ events[event_id].sold <= events[event_id].max_tickets
  /\ amount = events[event_id].price
  /\ receiver = AppAddress
BuyTicketOk(event_id, receiver, amount) ==
  /\ BoxExists(events, event_id)
  /\ events[event_id].sold < events[event_id].max_tickets
  /\ amount = events[event_id].price
  /\ receiver = AppAddress

\* buy_ticket, lines 154 and 191-197: the Ticket Record stored for the asset
NewTicket_m(event_id, event, owner) ==
  [event_id |-> event_id, owner |-> owner,
   ticket_number |-> total_tickets_sold, used |-> FALSE,
   purchase_time |-> now]
NewTicket(event_id, event, owner) ==
  [event_id |-> event_id, owner |-> owner,
   ticket_number |-> event.sold, used |-> FALSE,
   purchase_time |-> now]

\* buy_ticket, lines 158-188: the inner transactions, in the order submitted
TicketItxns_m(event) == <<"mint", "transfer">>
TicketItxns(event) ==
  IF event.transferable THEN <<"mint", "transfer">>
                        ELSE <<"mint", "transfer", "freeze">>

\* the asset substrate after those inner transactions: the unit is created in
\* the application's holding, an AssetTransfer moves it to the receiver, an
\* AssetFreeze freezes the receiver's holding
HolderAfter(itxns, receiver) ==
  IF \E i \in DOMAIN itxns : itxns[i] = "transfer" THEN receiver ELSE AppAddress
FrozenAfter(itxns) == \E i \in DOMAIN itxns : itxns[i] = "freeze"

BuyTicket ==
  \E sender \in Buyers, event_id \in 0..MaxEvents,
     receiver \in Receivers, amount \in 0..MaxAmt :
    /\ IF BuyTicketOk(event_id, receiver, amount)
       THEN LET event    == events[event_id]
                asset_id == next_asset_id
            IN
            /\ next_asset_id' = next_asset_id + 1
            /\ assetHolder' = BoxPut(assetHolder, asset_id,
                                     HolderAfter(TicketItxns(event), sender))
            /\ assetFrozen' = BoxPut(assetFrozen, asset_id,
                                     FrozenAfter(TicketItxns(event)))
            /\ assetLog' = BoxPut(assetLog, asset_id, TicketItxns(event))
            /\ tickets' = BoxPut(tickets, asset_id,
                                 NewTicket(event_id, event, sender))
            /\ events' = BoxPut(events, event_id,
                                [event EXCEPT !.sold = event.sold + 1])
            /\ total_tickets_sold' = total_tickets_sold + 1
            /\ tickIn' = tickIn + amount
            /\ lastCall' = Call("buy_ticket", sender, event_id, TRUE, <<>>,
                                asset_id)
            /\ UNCHANGED <<next_event_id, tickOut>>
       ELSE /\ lastCall' = Rejected
            /\ UNCHANGED tickVars
    /\ UNCHANGED <<payVars, expVars, fundVars, auxVars, now>>

\* verify_ticket (read-only): (ticket_owner, is_valid)
verify_ticket(asset_id) == <<tickets[asset_id].owner, ~tickets[asset_id].used>>

\* use_ticket, lines 232-239
UseTicketOk_m(asset_id, sender) ==
  /\ BoxExists(tickets, asset_id)
  /\ BoxExists(events, tickets[asset_id].event_id)
  /\ sender = events[tickets[asset_id].event_id].organizer
UseTicketOk(asset_id, sender) ==
  /\ BoxExists(tickets, asset_id)
  /\ BoxExists(events, tickets[asset_id].event_id)
  /\ sender = events[tickets[asset_id].event_id].organizer
  /\ ~tickets[asset_id].used

UseTicket ==
  \E sender \in Accounts, asset_id \in FirstAssetId..next_asset_id :
    /\ IF UseTicketOk(asset_id, sender)
       THEN /\ tickets' = BoxPut(tickets, asset_id,
                                 [tickets[asset_id] EXCEPT !.used = TRUE])
            /\ lastCall' = Call("use_ticket", sender, asset_id, TRUE, <<>>, 0)
            /\ UNCHANGED <<events, next_event_id, total_tickets_sold,
                           next_asset_id, assetHolder, assetFrozen, assetLog,
                           tickIn, tickOut>>
       ELSE /\ lastCall' = Rejected
            /\ UNCHANGED tickVars
    /\ UNCHANGED <<payVars, expVars, fundVars, auxVars, now>>

\* withdraw_sales, line 257
Revenue_m(event) == event.price * event.max_tickets
Revenue(event) == event.price * event.sold

\* withdraw_sales, lines 252-258
WithdrawSalesOk(event_id, sender) ==
  /\ BoxExists(events, event_id)
  /\ sender = events[event_id].organizer
  /\ Revenue(events[event_id]) > 0

WithdrawSales ==
  \E sender \in Accounts, event_id \in 0..MaxEvents :
    /\ IF /\ WithdrawSalesOk(event_id, sender)
          /\ ItxnOk(TickCustody, Revenue(events[event_id]))
       THEN LET revenue == Revenue(events[event_id]) IN
            /\ tickOut' = [tickOut EXCEPT ![event_id] = @ + revenue]
            /\ lastCall' = Call("withdraw_sales", sender, event_id, TRUE,
                                <<Pay(sender, revenue)>>, 0)
            /\ UNCHANGED <<events, tickets, next_event_id, total_tickets_sold,
                           next_asset_id, assetHolder, assetFrozen, assetLog,
                           tickIn>>
       ELSE /\ lastCall' = Rejected
            /\ UNCHANGED tickVars
    /\ UNCHANGED <<payVars, expVars, fundVars, auxVars, now>>

\* ================================================================ Handler bodies
\* The statements of each handler that check, write the store or submit an
\* inner transaction, in source order.  A write under an `if` counts as a
\* write.
A == "assert"
W == "write"
X == "itxn"

\* payment/contract.py
PaymentBody(h) ==
  CASE h = "payment.deposit"       -> <<A, A, W, W, W, W>>
    [] h = "payment.send_money"    -> <<A, A, W, W, W, W>>
    [] h = "payment.withdraw"      -> <<A, A, W, X>>
    [] h = "payment.verify_campus" -> <<A, W, W>>
    [] h = "payment.get_balance"   -> <<>>
    [] h = "payment.is_verified"   -> <<>>
    [] h = "payment.get_stats"     -> <<>>

\* expense/contract.py
ExpenseBody(h) ==
  CASE h = "expense.create_group"       -> <<A, A, A, A, A, W, W, W>>
    [] h = "expense.contribute"         -> <<A, A, A, A, W, W>>
    [] h = "expense.settle_group"       -> <<A, A, A, A, W, X, W>>
    [] h = "expense.get_group_info"     -> <<A>>
    [] h = "expense.get_contribution"   -> <<>>
    [] h = "expense.get_platform_stats" -> <<>>

\* fundraise/contract.py
FundBody(h) ==
  CASE h = "fundraise.create_campaign"    -> <<A, A, A, A, W, W, W>>
    [] h = "fundraise.donate"             -> <<A, A, A, A, W, W, W>>
    [] h = "fundraise.release_milestone"  -> <<A, A, A, A, X, W>>
    [] h = "fundraise.claim_refund"       -> <<A, A, A, A, A, W, X>>
    [] h = "fundraise.get_campaign_info"  -> <<A>>
    [] h = "fundraise.get_donation"       -> <<>>
    [] h = "fundraise.get_platform_stats" -> <<>>

\* ticketing/contract.py
TicketBody(h) ==
  CASE h = "ticketing.create_event"   -> <<A, A, A, W, W>>
    [] h = "ticketing.buy_ticket"     -> <<A, A, A, A, X, X, X, W, W, W>>
    [] h = "ticketing.verify_ticket"  -> <<A>>
    [] h = "ticketing.use_ticket"     -> <<A, A, A, A, W>>
    [] h = "ticketing.withdraw_sales" -> <<A, A, A, X>>
    [] h = "ticketing.get_event_info" -> <<A>>

PaymentHandlers ==
  {"payment.deposit", "payment.send_money", "payment.withdraw",
   "payment.verify_campus", "payment.get_balance", "payment.is_verified",
   "payment.get_stats"}
ExpenseHandlers ==
  {"expense.create_group", "expense.contribute", "expense.settle_group",
   "expense.get_group_info", "expense.get_contribution",
   "expense.get_platform_stats"}
FundHandlers ==
  {"fundraise.create_campaign", "fundraise.donate",
   "fundraise.release_milestone", "fundraise.claim_refund",
   "fundraise.get_campaign_info", "fundraise.get_donation",
   "fundraise.get_platform_stats"}
TicketHandlers ==
  {"ticketing.create_event", "ticketing.buy_ticket", "ticketing.verify_ticket",
   "ticketing.use_ticket", "ticketing.withdraw_sales",
   "ticketing.get_event_info"}
Handlers == PaymentHandlers \cup ExpenseHandlers \cup FundHandlers \cup TicketHandlers

Body(h) ==
  IF h \in PaymentHandlers THEN PaymentBody(h)
  ELSE IF h \in ExpenseHandlers THEN ExpenseBody(h)
  ELSE IF h \in FundHandlers THEN FundBody(h)
  ELSE TicketBody(h)

\* the statement a handler executes at position pc
StepKind_m(h, pc) ==
  IF h = "payment.send_money" /\ pc \in {2, 3}
  THEN Body(h)[5 - pc] ELSE Body(h)[pc]
StepKind(h, pc) == Body(h)[pc]

\* no call in progress
Idle == [op |-> "none", pc |-> 0, dirty |-> FALSE, failed |-> FALSE]

Running == run.op # "none" /\ ~run.failed /\ run.pc <= Len(Body(run.op))
stepFrame == <<payVars, expVars, fundVars, tickVars, now, lastCall, app, stack>>

StartCall ==
  /\ run = Idle
  /\ \E h \in Handlers :
       run' = [op |-> h, pc |-> 1, dirty |-> FALSE, failed |-> FALSE]
  /\ UNCHANGED stepFrame

\* an assert whose condition holds
AssertPass ==
  /\ Running /\ StepKind(run.op, run.pc) = A
  /\ run' = [run EXCEPT !.pc = @ + 1]
  /\ UNCHANGED stepFrame

\* an assert whose condition fails: the call aborts here
AssertFail ==
  /\ Running /\ StepKind(run.op, run.pc) = A
  /\ run' = [run EXCEPT !.failed = TRUE]
  /\ UNCHANGED stepFrame

StoreWrite ==
  /\ Running /\ StepKind(run.op, run.pc) = W
  /\ run' = [run EXCEPT !.pc = @ + 1, !.dirty = TRUE]
  /\ UNCHANGED stepFrame

SubmitItxn ==
  /\ Running /\ StepKind(run.op, run.pc) = X
  /\ run' = [run EXCEPT !.pc = @ + 1, !.dirty = TRUE]
  /\ UNCHANGED stepFrame

ReturnCall ==
  /\ run.op # "none"
  /\ run.failed \/ run.pc > Len(Body(run.op))
  /\ run' = Idle
  /\ UNCHANGED stepFrame

\* ================================================================ specifications
InitStore ==
  /\ balances = EmptyBox /\ campus_verified = EmptyBox /\ campus_id = EmptyBox
  /\ total_volume = 0 /\ total_transactions = 0 /\ active_users = 0
  /\ payDeposited = 0 /\ payWithdrawn = 0
  /\ groups = EmptyBox /\ contributions = EmptyBox
  /\ next_group_id = 0 /\ total_groups = 0 /\ total_split = 0
  /\ expIn = 0 /\ expSettles = [g \in GroupIds |-> 0]
  /\ campaigns = EmptyBox /\ donations = EmptyBox
  /\ next_campaign_id = 0 /\ total_campaigns = 0 /\ total_raised = 0
  /\ fundDonated = [c \in CampaignIds |-> [a \in Accounts |-> 0]]
  /\ fundRefunded = [c \in CampaignIds |-> [a \in Accounts |-> 0]]
  /\ fundReleased = [c \in CampaignIds |-> 0]
  /\ fundReleases = [c \in CampaignIds |-> 0]
  /\ events = EmptyBox /\ tickets = EmptyBox
  /\ next_event_id = 0 /\ total_tickets_sold = 0
  /\ next_asset_id = FirstAssetId
  /\ assetHolder = EmptyBox /\ assetFrozen = EmptyBox /\ assetLog = EmptyBox
  /\ tickIn = 0 /\ tickOut = [e \in EventIds |-> 0]
  /\ now = 0
  /\ lastCall = Call("init", AppAddress, NoId, TRUE, <<>>, 0)
  /\ stack = <<>> /\ run = Idle

Init == InitStore /\ app = "any"

NextPayment == Deposit \/ SendMoney \/ Withdraw \/ VerifyCampus
SpecPayment == Init /\ [][NextPayment]_vars

NextExpense == CreateGroup \/ Contribute \/ SettleGroup \/ Tick
SpecExpense == Init /\ [][NextExpense]_vars

NextFund == CreateCampaign \/ Donate \/ ReleaseMilestone \/ ClaimRefund \/ Tick
SpecFund == Init /\ [][NextFund]_vars

NextTicket == CreateEvent \/ BuyTicket \/ UseTicket \/ WithdrawSales
SpecTicket == Init /\ [][NextTicket]_vars

\* ================================================================ Re-entrancy
\* A payout handler split at its inner payment: the part up to and including
\* the submit (Begin), and the part after it (End).  Between the two the
\* receiver of the payment has control and may invoke a payout handler of the
\* same application again; the suspended call keeps the locals it read.
Apps == {"payment", "expense", "fund"}

Frame(op, sender, id, receiver, amount, local) ==
  [op |-> op, sender |-> sender, id |-> id, receiver |-> receiver,
   amount |-> amount, local |-> local, paid |-> amount]

\* the payment of a new call is added to what every suspended call of the
\* same receiver has seen paid since it started
Push(frame) ==
  Append([i \in DOMAIN stack |->
            IF stack[i].receiver = frame.receiver
            THEN [stack[i] EXCEPT !.paid = @ + frame.amount] ELSE stack[i]],
         frame)
Top == stack[Len(stack)]
Pop == SubSeq(stack, 1, Len(stack) - 1)
AtTransfer(frame) ==
  Call(frame.op, frame.sender, frame.id, FALSE,
       <<Pay(frame.receiver, frame.amount)>>, 0)
Returned(frame) ==
  Call(frame.op, frame.sender, frame.id, TRUE,
       <<Pay(frame.receiver, frame.amount)>>, 0)

\* the application account's balance while payments are in flight
ExpBalance ==
  expIn - SumOver([g \in GroupIds |->
                     IF BoxExists(groups, g)
                     THEN expSettles[g] * groups[g].total_amount ELSE 0],
                  GroupIds)

\* withdraw, lines 131-143 (nothing follows the submit)
WithdrawBegin ==
  /\ app = "payment" /\ Len(stack) < MaxDepth
  /\ \E sender \in Accounts, amount \in 0..MaxAmt :
       LET balance == BoxGet(balances, sender, 0) IN
       IF /\ balance >= amount
          /\ amount > 0
          /\ ItxnOk(PayCustody, amount)
       THEN LET frame == Frame("withdraw", sender, NoId, sender, amount, balance)
            IN
            /\ balances' = WithdrawBalances(balances, sender, amount)
            /\ payWithdrawn' = payWithdrawn + amount
            /\ stack' = Push(frame)
            /\ lastCall' = AtTransfer(frame)
            /\ UNCHANGED <<campus_verified, campus_id, total_volume,
                           total_transactions, active_users, payDeposited>>
       ELSE /\ lastCall' = Rejected
            /\ UNCHANGED <<payVars, stack>>
  /\ UNCHANGED <<expVars, fundVars, tickVars, app, run, now>>

WithdrawEnd ==
  /\ app = "payment" /\ stack # <<>> /\ Top.op = "withdraw"
  /\ stack' = Pop
  /\ lastCall' = Returned(Top)
  /\ UNCHANGED <<payVars, expVars, fundVars, tickVars, app, run, now>>

\* settle_group, lines 167-183: checks, settled written, payment submitted
SettleBegin ==
  /\ app = "expense" /\ Len(stack) < MaxDepth
  /\ \E sender \in Accounts, group_id \in 0..MaxGroups :
       IF /\ SettleOk(group_id, sender)
          /\ ItxnOk(ExpBalance, groups[group_id].total_amount)
       THEN LET group == SettleGroupRecord(groups[group_id])
                frame == Frame("settle_group", sender, group_id, group.creator,
                               group.total_amount, group)
            IN
            /\ groups' = BoxPut(groups, group_id, group)
            /\ expSettles' = [expSettles EXCEPT ![group_id] = @ + 1]
            /\ stack' = Push(frame)
            /\ lastCall' = AtTransfer(frame)
            /\ UNCHANGED <<contributions, next_group_id, total_groups,
                           total_split, expIn>>
       ELSE /\ lastCall' = Rejected
            /\ UNCHANGED <<expVars, stack>>
  /\ UNCHANGED <<payVars, fundVars, tickVars, app, run, now>>

\* settle_group, line 185
SettleEnd ==
  /\ app = "expense" /\ stack # <<>> /\ Top.op = "settle_group"
  /\ total_split' = total_split + Top.local.total_amount
  /\ stack' = Pop
  /\ lastCall' = Returned(Top)
  /\ UNCHANGED <<groups, contributions, next_group_id, total_groups, expIn,
                 expSettles>>
  /\ UNCHANGED <<payVars, fundVars, tickVars, app, run, now>>

\* release_milestone, lines 171-186: checks, payment submitted; the campaign
\* record is not written yet
ReleaseBegin ==
  /\ app = "fund" /\ Len(stack) < MaxDepth
  /\ \E sender \in Accounts, campaign_id \in 0..MaxCampaigns :
       IF /\ ReleaseOk(campaign_id, sender)
          /\ ItxnOk(FundCustody, MilestoneAmount(campaigns[campaign_id]))
       THEN LET campaign == campaigns[campaign_id]
                frame == Frame("release_milestone", sender, campaign_id,
                               campaign.creator, MilestoneAmount(campaign),
                               campaign)
            IN
            /\ fundReleased' = [fundReleased EXCEPT ![campaign_id] = @ + frame.amount]
            /\ fundReleases' = [fundReleases EXCEPT ![campaign_id] = @ + 1]
            /\ stack' = Push(frame)
            /\ lastCall' = AtTransfer(frame)
            /\ UNCHANGED <<campaigns, donations, next_campaign_id,
                           total_campaigns, total_raised, fundDonated,
                           fundRefunded>>
       ELSE /\ lastCall' = Rejected
            /\ UNCHANGED <<fundVars, stack>>
  /\ UNCHANGED <<payVars, expVars, tickVars, app, run, now>>

\* release_milestone, lines 189-197: the record read before the payment is
\* updated and written back
ReleaseEnd ==
  /\ app = "fund" /\ stack # <<>> /\ Top.op = "release_milestone"
  /\ campaigns' = BoxPut(campaigns, Top.id, ReleaseCampaign(Top.local))
  /\ stack' = Pop
  /\ lastCall' = Returned(Top)
  /\ UNCHANGED <<donations, next_campaign_id, total_campaigns, total_raised,
                 fundDonated, fundRefunded, fundReleased, fundReleases>>
  /\ UNCHANGED <<payVars, expVars, tickVars, app, run, now>>

\* claim_refund, lines 210-232 (nothing follows the submit)
RefundBegin ==
  /\ app = "fund" /\ Len(stack) < MaxDepth
  /\ \E sender \in Accounts, campaign_id \in 0..MaxCampaigns :
       IF /\ RefundOk(campaign_id, sender)
          /\ ItxnOk(FundCustody, donations[<<campaign_id, sender>>])
       THEN LET donor_key == <<campaign_id, sender>>
                frame == Frame("claim_refund", sender, campaign_id, sender,
                               donations[donor_key], campaigns[campaign_id])
            IN
            /\ donations' = RefundDonations(donations, donor_key)
            /\ fundRefunded' = [fundRefunded EXCEPT ![campaign_id][sender] = @ + frame.amount]
            /\ stack' = Push(frame)
            /\ lastCall' = AtTransfer(frame)
            /\ UNCHANGED <<campaigns, next_campaign_id, total_campaigns,
                           total_raised, fundDonated, fundReleased, fundReleases>>
       ELSE /\ lastCall' = Rejected
            /\ UNCHANGED <<fundVars, stack>>
  /\ UNCHANGED <<payVars, expVars, tickVars, app, run, now>>

RefundEnd ==
  /\ app = "fund" /\ stack # <<>> /\ Top.op = "claim_refund"
  /\ stack' = Pop
  /\ lastCall' = Returned(Top)
  /\ UNCHANGED <<payVars, expVars, fundVars, tickVars, app, run, now>>

\* the other operations run between top-level calls
ReDeposit        == app = "payment" /\ stack = <<>> /\ Deposit
ReCreateGroup    == app = "expense" /\ stack = <<>> /\ CreateGroup
ReContribute     == app = "expense" /\ stack = <<>> /\ Contribute
ReCreateCampaign == app = "fund" /\ stack = <<>> /\ CreateCampaign
ReDonate         == app = "fund" /\ stack = <<>> /\ Donate
ReTick           == app = "fund" /\ stack = <<>> /\ Tick

InitReentry == InitStore /\ app \in Apps
NextReentry ==
  \/ ReDeposit \/ WithdrawBegin \/ WithdrawEnd
  \/ ReCreateGroup \/ ReContribute \/ SettleBegin \/ SettleEnd
  \/ ReCreateCampaign \/ ReDonate \/ ReTick
  \/ ReleaseBegin \/ ReleaseEnd \/ RefundBegin \/ RefundEnd
SpecReentry == InitReentry /\ [][NextReentry]_vars

NextSteps ==
  StartCall \/ AssertPass \/ AssertFail \/ StoreWrite \/ SubmitItxn \/ ReturnCall
SpecSteps == Init /\ [][NextSteps]_vars

\* ================================================================ properties
\* the call just committed is op on entity id
OkCall(op, id) == lastCall.ok /\ lastCall.op = op /\ lastCall.id = id

\* ---------------------------------------------------------------- C1
\* C1: after any sequence of deposit, send_money (also to oneself) and withdraw
\* calls every stored balance is >= 0 and the balances sum to at most the
\* total deposited minus the total withdrawn.
C1_BalancesBacked ==
  /\ \A a \in DOMAIN balances : balances[a] >= 0
  /\ SumBox(balances) <= payDeposited - payWithdrawn

\* a send_money to oneself has just committed (the sender's box is the only
\* one), after an earlier withdrawal
C1_Witness ==
  /\ lastCall.op = "send_money" /\ lastCall.ok
  /\ DOMAIN balances = {lastCall.sender}
  /\ payWithdrawn > 0
  /\ balances[lastCall.sender] > 0

\* ---------------------------------------------------------------- C2
\* C2: for every campaign the value paid out (milestone payments plus refunds)
\* never exceeds the value donated to that campaign.
C2_PaidWithinDonated ==
  \A c \in CampaignIds : PaidOut(c) <= SumDonated(c)

\* ---------------------------------------------------------------- C3
\* C3: once a refund has been claimed from a campaign it never becomes
\* fully_funded and no release_milestone succeeds for it; once a campaign is
\* fully_funded no claim_refund succeeds for it.
C3_OnePath ==
  [][\A c \in CampaignIds :
       BoxExists(campaigns, c) =>
         /\ SumRefunded(c) > 0 =>
              /\ ~campaigns'[c].fully_funded
              /\ fundReleases'[c] = fundReleases[c]
         /\ campaigns[c].fully_funded => fundRefunded'[c] = fundRefunded[c]]_vars

\* ---------------------------------------------------------------- C4
\* C4: settled only changes false->true; no settle_group commits on a settled
\* group; at most one payout, of total_amount to the creator, per group.
C4_SettleOnce ==
  [][\A g \in GroupIds :
       /\ (BoxExists(groups, g) /\ groups[g].settled) =>
             /\ groups'[g].settled
             /\ ~OkCall("settle_group", g)'
             /\ expSettles'[g] = expSettles[g]
       /\ expSettles'[g] <= 1
       /\ expSettles'[g] # expSettles[g] =>
             /\ OkCall("settle_group", g)'
             /\ lastCall'.itxns = <<Pay(groups[g].creator, groups[g].total_amount)>>]_vars

\* a group has been settled and paid out once, and a later call was rejected
\* while no caller can settle it again
C4_Witness ==
  \E g \in GroupIds :
    /\ BoxExists(groups, g) /\ groups[g].settled /\ expSettles[g] = 1
    /\ lastCall = Rejected
    /\ groups[g].total_contributed >= 2 * groups[g].total_amount
    /\ ExpCustody >= groups[g].total_amount

\* ---------------------------------------------------------------- C5
\* C5: settle_group commits only when the caller is the creator,
\* total_contributed >= total_amount and the group is unsettled; in every
\* other case nothing is paid out.
SettleGate(g, caller) ==
  /\ BoxExists(groups, g)
  /\ caller = groups[g].creator
  /\ groups[g].total_contributed >= groups[g].total_amount
  /\ ~groups[g].settled

C5_SettleGated ==
  [][/\ \A g \in 0..MaxGroups :
          OkCall("settle_group", g)' => SettleGate(g, lastCall'.sender)
     /\ (total_split' # total_split \/ expSettles' # expSettles
           \/ lastCall'.itxns # <<>>) =>
          \E g \in GroupIds :
            OkCall("settle_group", g)' /\ SettleGate(g, lastCall'.sender)]_vars

\* the creator has just settled a funded group while another account, not the
\* creator, had contributed to it
C5_Witness ==
  \E g \in GroupIds :
    /\ OkCall("settle_group", g)
    /\ lastCall.sender = groups[g].creator
    /\ \E a \in Accounts : a # groups[g].creator /\ get_contribution(g, a) > 0
    /\ groups[g].settled

\* ---------------------------------------------------------------- C6
\* num_members distinct accounts have each contributed exactly the share
ExactShares(g) ==
  Cardinality({a \in Accounts :
                 /\ BoxExists(contributions, <<g, a>>)
                 /\ contributions[<<g, a>>] = ExpectedShare(groups[g])})
    >= groups[g].num_members

\* settle_group called by the creator of g commits
CreatorCanSettle(g) ==
  /\ SettleOk(g, groups[g].creator)
  /\ ItxnOk(ExpCustody, groups[g].total_amount)

SettlePaysTotal(g) ==
  /\ lastCall'.sender = groups[g].creator
  /\ lastCall'.itxns = <<Pay(groups[g].creator, groups[g].total_amount)>>
  /\ expSettles'[g] = 1

\* C6 as stated: for any total_amount T and num_members n, once n distinct
\* callers have each contributed exactly T // n, settle_group by the creator
\* succeeds with a single transfer of T to the creator.
C6_Original ==
  /\ [](\A g \in GroupIds :
          (BoxExists(groups, g) /\ ~groups[g].settled /\ ExactShares(g))
             => CreatorCanSettle(g))
  /\ [][\A g \in GroupIds :
          (BoxExists(groups, g) /\ ExactShares(g) /\ OkCall("settle_group", g)')
             => SettlePaysTotal(g)]_vars

\* C6 amended: the same, for groups whose total_amount is a multiple of
\* num_members.
Divisible(g) == groups[g].total_amount % groups[g].num_members = 0

C6_ExactSharesSettle ==
  /\ [](\A g \in GroupIds :
          (BoxExists(groups, g) /\ ~groups[g].settled /\ ExactShares(g)
             /\ Divisible(g))
             => CreatorCanSettle(g))
  /\ [][\A g \in GroupIds :
          (BoxExists(groups, g) /\ ExactShares(g) /\ Divisible(g)
             /\ OkCall("settle_group", g)')
             => SettlePaysTotal(g)]_vars

\* the creator has just settled a group that every member paid exactly the
\* share of, and nothing more was contributed
C6_Witness ==
  \E g \in GroupIds :
    /\ OkCall("settle_group", g)
    /\ ExactShares(g) /\ Divisible(g)
    /\ groups[g].total_contributed = groups[g].total_amount
    /\ lastCall.itxns = <<Pay(groups[g].creator, groups[g].total_amount)>>

\* ---------------------------------------------------------------- C7
\* C7: once a campaign is fully_funded it stays fully_funded in every later
\* state.
C7_FullyFundedStable ==
  [][\A c \in CampaignIds :
       (BoxExists(campaigns, c) /\ campaigns[c].fully_funded)
          => campaigns'[c].fully_funded]_vars

\* a donation has just been accepted by a campaign that was already funded
C7_Witness ==
  \E c \in CampaignIds :
    /\ OkCall("donate", c)
    /\ campaigns[c].fully_funded
    /\ campaigns[c].raised > campaigns[c].goal
    /\ campaigns[c].raised - campaigns[c].goal < MaxAmt

\* ---------------------------------------------------------------- C8
\* C8: at most num_milestones releases commit per campaign; after that no
\* caller can release, and the released total is
\* num_milestones * (goal // num_milestones) <= goal.
C8_ReleasesBounded ==
  \A c \in CampaignIds :
    BoxExists(campaigns, c) =>
      LET k == campaigns[c] IN
      /\ fundReleases[c] <= k.num_milestones
      /\ fundReleases[c] = k.num_milestones =>
           /\ \A s \in Accounts : ~ReleaseOk(c, s)
           /\ fundReleased[c] = k.num_milestones * (k.goal \div k.num_milestones)
           /\ fundReleased[c] <= k.goal

\* all of two milestones were released, with a remainder kept, and a further
\* call was rejected
C8_Witness ==
  \E c \in CampaignIds :
    /\ BoxExists(campaigns, c)
    /\ campaigns[c].num_milestones = 2
    /\ fundReleases[c] = 2
    /\ fundReleased[c] < campaigns[c].goal
    /\ FundCustody >= MilestoneAmount(campaigns[c])
    /\ lastCall = Rejected

\* ---------------------------------------------------------------- C9
\* C9: a committed claim_refund pays the caller exactly the recorded donation
\* and leaves the record present with value 0; it commits only on a nonzero
\* record, so a second claim with no donate in between is rejected, and the
\* total refunded to a donor never exceeds what the donor donated.
C9_RefundExact ==
  [][\A c \in CampaignIds, a \in Accounts :
       /\ (OkCall("claim_refund", c)' /\ lastCall'.sender = a) =>
             /\ BoxExists(donations, <<c, a>>)
             /\ donations[<<c, a>>] > 0
             /\ lastCall'.itxns = <<Pay(a, donations[<<c, a>>])>>
             /\ BoxExists(donations', <<c, a>>)
             /\ donations'[<<c, a>>] = 0
       /\ fundRefunded'[c][a] # fundRefunded[c][a] =>
             (OkCall("claim_refund", c)' /\ lastCall'.sender = a)
       /\ fundRefunded'[c][a] <= fundDonated'[c][a]]_vars

\* a donor was refunded, donated again and was refunded again; the application
\* account still holds funds and the donor's next call is rejected
C9_Witness ==
  \E c \in CampaignIds, a \in Accounts :
    /\ BoxExists(donations, <<c, a>>) /\ donations[<<c, a>>] = 0
    /\ fundRefunded[c][a] = fundDonated[c][a]
    /\ fundRefunded[c][a] > 0
    /\ FundCustody > 0
    /\ ~campaigns[c].fully_funded
    /\ lastCall = Rejected

\* ---------------------------------------------------------------- C10
ReleaseGate(c, caller) ==
  /\ BoxExists(campaigns, c)
  /\ caller = campaigns[c].creator
  /\ campaigns[c].fully_funded
  /\ campaigns[c].milestones_released < campaigns[c].num_milestones

RefundGate(c, caller) ==
  /\ BoxExists(campaigns, c)
  /\ now > campaigns[c].deadline
  /\ ~campaigns[c].fully_funded
  /\ BoxExists(donations, <<c, caller>>)
  /\ donations[<<c, caller>>] # 0

\* C10: a payment leaves the fundraising contract only through a
\* release_milestone whose gate held (creator, fully_funded,
\* milestones_released < num_milestones) or a claim_refund whose gate held
\* (timestamp > deadline, not fully_funded, nonzero donation record).
C10_PayoutsGated ==
  [][(lastCall'.itxns # <<>> \/ fundReleased' # fundReleased
        \/ fundRefunded' # fundRefunded \/ fundReleases' # fundReleases) =>
       \E c \in CampaignIds :
         \/ OkCall("release_milestone", c)' /\ ReleaseGate(c, lastCall'.sender)
         \/ OkCall("claim_refund", c)' /\ RefundGate(c, lastCall'.sender)]_vars

\* both kinds of payout have happened: a refund from one campaign and a
\* milestone release from another
C10_Witness ==
  \E c, d \in CampaignIds :
    /\ c # d
    /\ SumRefunded(c) > 0 /\ fundReleases[c] = 0
    /\ fundReleases[d] > 0 /\ SumRefunded(d) = 0
    /\ OkCall("release_milestone", d)

\* ---------------------------------------------------------------- C18
\* C18: a contribution committed after the group's deadline is not taken as an
\* ordinary share: its amount covers the share plus penalty_rate basis points
\* of it (amount * 10000 >= share * (10000 + penalty_rate)).
C18_LateContributionPenalised ==
  [][\A g \in GroupIds :
       (OkCall("contribute", g)' /\ now > groups[g].deadline) =>
          (expIn' - expIn) * 10000
             >= ExpectedShare(groups[g]) * (10000 + groups[g].penalty_rate)]_vars

\* ---------------------------------------------------------------- C19
\* C19: once a group is settled no contribute and no settle_group commits on
\* it, and its record and its contribution records never change again.
C19_SettledTerminal ==
  [][\A g \in GroupIds :
       (BoxExists(groups, g) /\ groups[g].settled) =>
          /\ groups'[g] = groups[g]
          /\ \A a \in Accounts :
               /\ BoxExists(contributions', <<g, a>>) = BoxExists(contributions, <<g, a>>)
               /\ get_contribution(g, a)' = get_contribution(g, a)
          /\ ~OkCall("contribute", g)'
          /\ ~OkCall("settle_group", g)']_vars

\* a group is settled, a later call was rejected although the contribution
\* cap still leaves room, and the other group is still open
C19_Witness ==
  \E g, h \in GroupIds :
    /\ BoxExists(groups, g) /\ groups[g].settled
    /\ BoxExists(groups, h) /\ ~groups[h].settled
    /\ expIn + MaxAmt <= MaxContrib
    /\ lastCall = Rejected

\* ---------------------------------------------------------------- C20
\* C20: once a campaign's active flag is false no donate, release_milestone or
\* claim_refund commits on it, and its record and its donation records never
\* change again.
C20_ReleasedTerminal ==
  [][\A c \in CampaignIds :
       (BoxExists(campaigns, c) /\ ~campaigns[c].active) =>
          /\ campaigns'[c] = campaigns[c]
          /\ \A a \in Accounts :
               /\ BoxExists(donations', <<c, a>>) = BoxExists(donations, <<c, a>>)
               /\ get_donation(c, a)' = get_donation(c, a)
          /\ ~OkCall("donate", c)'
          /\ ~OkCall("release_milestone", c)'
          /\ ~OkCall("claim_refund", c)'
          /\ fundReleased'[c] = fundReleased[c]
          /\ fundRefunded'[c] = fundRefunded[c]]_vars

\* every milestone of a campaign was released, its deadline has passed, the
\* application account still holds funds, the donation cap leaves room, and a
\* later call was rejected
C20_Witness ==
  \E c \in CampaignIds :
    /\ BoxExists(campaigns, c) /\ ~campaigns[c].active
    /\ now > campaigns[c].deadline
    /\ FundCustody > 0
    /\ total_raised < MaxRaised
    /\ lastCall = Rejected

\* ---------------------------------------------------------------- C14
TicketsOf(e) == {a \in DOMAIN tickets : tickets[a].event_id = e}

\* C14: for every event sold <= max_tickets; while sold < max_tickets a
\* buy_ticket with the exact price paid to the application commits (the last
\* one makes sold = max_tickets); at sold = max_tickets no buy_ticket commits,
\* and a rejected call mints nothing, stores nothing and moves no counter.
C14_SoldBounded ==
  /\ [](\A e \in EventIds : BoxExists(events, e) =>
          /\ events[e].sold <= events[e].max_tickets
          /\ (events[e].sold < events[e].max_tickets
                => BuyTicketOk(e, AppAddress, events[e].price))
          /\ (events[e].sold = events[e].max_tickets
                => \A r \in Receivers, m \in 0..MaxAmt : ~BuyTicketOk(e, r, m)))
  /\ [][/\ \A e \in EventIds : OkCall("buy_ticket", e)' =>
             /\ events[e].sold < events[e].max_tickets
             /\ events'[e].sold = events[e].sold + 1
             /\ Cardinality(TicketsOf(e)') = Cardinality(TicketsOf(e)) + 1
        /\ (lastCall' = Rejected) => UNCHANGED tickVars]_vars
C14_Witness ==
  \E e \in EventIds :
    /\ BoxExists(events, e)
    /\ events[e].max_tickets = 2 /\ events[e].sold = 2
    /\ lastCall = Rejected

\* ---------------------------------------------------------------- C15
\* C15: the ticket_number values stored for an event are exactly 0..sold-1,
\* each once, whatever the interleaving of purchases across events.
C15_DenseNumbers ==
  \A e \in EventIds : BoxExists(events, e) =>
    /\ Cardinality(TicketsOf(e)) = events[e].sold
    /\ {tickets[a].ticket_number : a \in TicketsOf(e)} = 0..(events[e].sold - 1)
C15_Witness ==
  \E e, f \in EventIds :
    /\ e # f /\ BoxExists(events, e) /\ BoxExists(events, f)
    /\ events[e].sold = 2 /\ events[f].sold = 1
    /\ tickets[FirstAssetId].event_id = e
    /\ tickets[FirstAssetId + 1].event_id = f
    /\ tickets[FirstAssetId + 2].event_id = e

\* ---------------------------------------------------------------- C16
StoredTickets == <<events, tickets, next_event_id, total_tickets_sold>>

\* A committed withdraw_sales writes nothing and pays price * sold.
WithdrawSalesFrame ==
  \A e \in EventIds : OkCall("withdraw_sales", e)' =>
    /\ UNCHANGED StoredTickets
    /\ lastCall'.sender = events[e].organizer
    /\ lastCall'.itxns =
         <<Pay(events[e].organizer, events[e].price * events[e].sold)>>
    /\ tickOut'[e] = tickOut[e] + events[e].price * events[e].sold

\* C16 as stated: every organizer call with price * sold > 0 transfers
\* price * sold, whatever was withdrawn before.
C16_Original ==
  /\ [](\A e \in EventIds :
          (BoxExists(events, e) /\ events[e].price * events[e].sold > 0) =>
             /\ WithdrawSalesOk(e, events[e].organizer)
             /\ ItxnOk(TickCustody, events[e].price * events[e].sold))
  /\ [][WithdrawSalesFrame]_vars

\* C16 amended: withdraw_sales writes nothing and keeps no record; every
\* organizer call with price * sold > 0 passes the checks whatever was
\* withdrawn before, and when the application account covers price * sold it
\* transfers exactly that amount.
C16_WithdrawRepeats ==
  /\ [](\A e \in EventIds :
          (BoxExists(events, e) /\ events[e].price * events[e].sold > 0) =>
             WithdrawSalesOk(e, events[e].organizer))
  /\ [][WithdrawSalesFrame]_vars
C16_Witness ==
  \E e \in EventIds :
    /\ OkCall("withdraw_sales", e)
    /\ events[e].price = 1 /\ events[e].sold = 1
    /\ tickOut[e] = 2


\* ---------------------------------------------------------------- C11
SameCall(f, g) == f.op = g.op /\ f.id = g.id /\ f.sender = g.sender

\* C11: while a settle_group or claim_refund is suspended at its transfer the
\* mark is already in the store (settled = true, donation record = 0), the
\* same operation for the same group / donor does not pass its checks, no
\* such call is nested in itself, and a group is paid at most once, a donor
\* at most what was donated.
C11_MarkBeforeTransfer ==
  /\ \A i \in DOMAIN stack :
       /\ stack[i].op = "settle_group" =>
            /\ groups[stack[i].id].settled
            /\ \A a \in Accounts : ~SettleOk(stack[i].id, a)
       /\ stack[i].op = "claim_refund" =>
            /\ get_donation(stack[i].id, stack[i].sender) = 0
            /\ ~RefundOk(stack[i].id, stack[i].sender)
  /\ \A i, j \in DOMAIN stack :
       (i < j /\ stack[i].op \in {"settle_group", "claim_refund"})
          => ~SameCall(stack[i], stack[j])
  /\ \A g \in GroupIds : expSettles[g] <= 1
  /\ \A c \in CampaignIds, a \in Accounts :
       fundRefunded[c][a] <= fundDonated[c][a]
C11_Witness ==
  /\ Len(stack) = 1 /\ Top.op = "settle_group"
  /\ ExpBalance >= Top.amount
  /\ lastCall = Rejected

\* ---------------------------------------------------------------- C12
\* C12: no more than num_milestones payments are issued for a campaign, also
\* when release_milestone is re-entered at its transfer.
C12_ReleasesWithinLimit ==
  \A c \in CampaignIds : BoxExists(campaigns, c) =>
    fundReleases[c] <= campaigns[c].num_milestones

\* ---------------------------------------------------------------- C13
\* C13: while a withdraw is suspended at its transfer the stored balance is
\* the balance read by that call less everything paid to the caller since,
\* so nested withdrawals never pay more than the balance before the outer
\* call.
C13_NestedWithdrawBounded ==
  \A i \in DOMAIN stack : stack[i].op = "withdraw" =>
    /\ stack[i].paid <= stack[i].local
    /\ get_balance(stack[i].sender) = stack[i].local - stack[i].paid
C13_Witness ==
  /\ Len(stack) = 2
  /\ stack[1].op = "withdraw" /\ stack[2].op = "withdraw"
  /\ stack[1].sender = stack[2].sender
  /\ stack[1].paid = stack[1].local
  /\ PayCustody > 0


\* ---------------------------------------------------------------- C17
\* C17: in every handler every check comes before the first store write and
\* the first inner transaction, so a call that fails a check has written
\* nothing and submitted nothing.
C17_ChecksFirst ==
  /\ run.failed => ~run.dirty
  /\ (Running /\ StepKind(run.op, run.pc) = A) => ~run.dirty
C17_Witness ==
  /\ run.op = "ticketing.buy_ticket"
  /\ run.failed /\ run.pc = 4


\* ---------------------------------------------------------------- C21
\* C21: a use_ticket commits only for the organizer of the ticket's event on
\* an unused ticket and sets used; a used ticket stays used and no later
\* use_ticket on it commits; verify_ticket reports valid exactly while the
\* ticket is unused.
C21_UsedOnce ==
  /\ [](\A a \in DOMAIN tickets : verify_ticket(a)[2] <=> ~tickets[a].used)
  /\ [][\A a \in DOMAIN tickets :
          /\ OkCall("use_ticket", a)' =>
               /\ lastCall'.sender = events[tickets[a].event_id].organizer
               /\ ~tickets[a].used
               /\ tickets'[a].used
               /\ verify_ticket(a)[2] /\ ~verify_ticket(a)'[2]
          /\ tickets[a].used =>
               /\ tickets'[a].used
               /\ ~OkCall("use_ticket", a)'
               /\ \A s \in Accounts : ~UseTicketOk(a, s)]_vars
C21_Witness ==
  \E a, b \in DOMAIN tickets :
    /\ tickets[a].used /\ ~tickets[b].used
    /\ lastCall = Rejected

\* ---------------------------------------------------------------- C22
\* C22: a committed buy_ticket leaves the new unit in the buyer's holding;
\* for a non-transferable event the unit is minted, transferred, then frozen
\* in that call, for a transferable event it is minted and transferred and
\* not frozen.
C22_FrozenIffSoulbound ==
  [][\A e \in EventIds : OkCall("buy_ticket", e)' =>
       LET a == lastCall'.ret IN
       /\ ~BoxExists(assetHolder, a)
       /\ assetHolder'[a] = lastCall'.sender
       /\ tickets'[a].owner = lastCall'.sender
       /\ IF events[e].transferable
          THEN /\ ~assetFrozen'[a]
               /\ assetLog'[a] = <<"mint", "transfer">>
          ELSE /\ assetFrozen'[a]
               /\ assetLog'[a] = <<"mint", "transfer", "freeze">>]_vars
C22_Witness ==
  \E a, b \in DOMAIN tickets :
    /\ ~events[tickets[a].event_id].transferable /\ assetFrozen[a]
    /\ events[tickets[b].event_id].transferable /\ ~assetFrozen[b]
    /\ OkCall("buy_ticket", tickets[a].event_id)
    /\ lastCall.ret = a


\* ---------------------------------------------------------------- C23
\* C23: active_users never exceeds the number of distinct accounts that
\* have ever held a balance (an account already counted is not counted
\* again).
C23_ActiveUsersDistinct == active_users <= Cardinality(DOMAIN balances)


\* ---------------------------------------------------------------- C24
\* C24: a verify_campus commits only for the deploying account; a rejected
\* call changes nothing; an account once verified is verified in every later
\* state.
C24_VerifyByCreator ==
  [][/\ OkCall("verify_campus", NoId)' => lastCall'.sender = CreatorAddress
     /\ (lastCall' = Rejected) => UNCHANGED payVars
     /\ \A u \in Accounts : is_verified(u) => is_verified(u)']_vars
C24_Witness ==
  \E u \in Accounts :
    /\ u # CreatorAddress /\ is_verified(u)
    /\ lastCall = Rejected


\* ---------------------------------------------------------------- C25
\* C25: for every campaign fully_funded is true exactly when raised >= goal.
C25_FundedIffRaised ==
  \A c \in CampaignIds : BoxExists(campaigns, c) =>
    (campaigns[c].fully_funded <=> campaigns[c].raised >= campaigns[c].goal)
C25_Witness ==
  \E c, d \in CampaignIds :
    /\ BoxExists(campaigns, c) /\ BoxExists(campaigns, d)
    /\ campaigns[c].raised > campaigns[c].goal /\ campaigns[c].fully_funded
    /\ campaigns[d].raised > 0 /\ campaigns[d].raised < campaigns[d].goal
    /\ ~campaigns[d].fully_funded

\* ---------------------------------------------------------------- C26
\* C26: for every campaign milestones_released <= num_milestones, and active
\* is false exactly when milestones_released = num_milestones; a campaign
\* whose deadline passed unfunded is still active.
C26_ActiveUntilReleased ==
  \A c \in CampaignIds : BoxExists(campaigns, c) =>
    /\ campaigns[c].milestones_released <= campaigns[c].num_milestones
    /\ ~campaigns[c].active
         <=> campaigns[c].milestones_released = campaigns[c].num_milestones
    /\ (now > campaigns[c].deadline /\ ~campaigns[c].fully_funded)
         => campaigns[c].active
C26_Witness ==
  \E c, d \in CampaignIds :
    /\ BoxExists(campaigns, c) /\ BoxExists(campaigns, d)
    /\ now > campaigns[c].deadline /\ ~campaigns[c].fully_funded
    /\ campaigns[c].raised > 0 /\ campaigns[c].active
    /\ ~campaigns[d].active /\ campaigns[d].milestones_released = 2

\* ---------------------------------------------------------------- C27
\* C27: a committed send_money returns the global transaction counter after
\* its increment and submits no inner transaction; the counter never
\* decreases, so the identifiers of successive send_money calls strictly
\* increase whatever deposit and withdraw calls come between.
C27_SendIdIncreasing ==
  [][/\ total_transactions' >= total_transactions
     /\ OkCall("send_money", NoId)' =>
          /\ lastCall'.ret = total_transactions'
          /\ lastCall'.ret > total_transactions
          /\ lastCall'.itxns = <<>>
          /\ UNCHANGED <<payDeposited, payWithdrawn>>]_vars
C27_Witness ==
  /\ OkCall("send_money", NoId)
  /\ lastCall.ret = 4
  /\ payWithdrawn > 0

\* ---------------------------------------------------------------- C28
ContributionsOf(g) == SumOver([a \in Accounts |-> get_contribution(g, a)], Accounts)

\* C28: for every group total_contributed is the sum of the group's
\* contribution records, and a contribute on one group leaves every other
\* group's record and contribution records unchanged.
C28_TotalIsSum ==
  /\ [](\A g \in GroupIds : BoxExists(groups, g) =>
          groups[g].total_contributed = ContributionsOf(g))
  /\ [][\A g \in GroupIds : OkCall("contribute", g)' =>
          \A h \in GroupIds \ {g} :
            /\ BoxExists(groups, h)' = BoxExists(groups, h)
            /\ BoxExists(groups, h) => groups'[h] = groups[h]
            /\ \A a \in Accounts :
                 /\ BoxExists(contributions, <<h, a>>)'
                      = BoxExists(contributions, <<h, a>>)
                 /\ get_contribution(h, a)' = get_contribution(h, a)]_vars
C28_Witness ==
  \E g, h \in GroupIds :
    /\ g # h /\ OkCall("contribute", g)
    /\ \A a \in Accounts : get_contribution(g, a) > 0
    /\ groups[g].total_contributed > groups[g].total_amount
    /\ BoxExists(groups, h) /\ groups[h].total_contributed > 0

============================================================================
